---- MODULE Spec2Model ----
(***************************************************************************)
(* A model of the Launchpad Scout dashboard (src/Dashboard/app.py): the    *)
(* remote reader and its time-to-live cache, the dataset loader, the       *)
(* master-table assembly, the filter engine and main's render cycle.       *)
(*                                                                         *)
(* A cell of a table is <<>> (null / NaN) or <<v>>.  A row is a function   *)
(* from column names to cells, a table a record [cols, rows].              *)
(***************************************************************************)
EXTENDS Integers, Sequences, FiniteSets, TLC

VARIABLES
    pc,          \* where main's script run is
    data,        \* main's data: the bundle load_all_data returned
    master,      \* master_df: what prepare_master_table returned (or raised)
    fargs,       \* the sidebar's values, the arguments of apply_filters
    filtered,    \* filtered_df: what apply_filters returned (or raised)
    shown,       \* what this script run has put on the page, in order
    now,         \* the clock, in seconds
    upstream,    \* the version of the files the weekly pipeline last wrote
    bucket,      \* the objects under each key, in listing order
    readerCache, \* the cache of read_csv_from_s3 / read_parquet_from_s3, by key
    bundleCache, \* the cache of load_all_data
    idx,         \* load_all_data: the position of the dataset being read
    loaded,      \* load_all_data: the snapshots read so far
    attempts,    \* fetches started in this script run, by dataset
    requests,    \* list and get requests sent in this script run
    target       \* the dataset and target_key of the last get_object

mainVars == <<pc, data, master, fargs, filtered, shown>>

storeVars == <<now, upstream, bucket>>

loadVars == <<readerCache, bundleCache, idx, loaded, attempts, requests, target>>

vars == <<pc, data, master, fargs, filtered, shown, now, upstream, bucket,
          readerCache, bundleCache, idx, loaded, attempts, requests, target>>

----------------------------------------------------------------------------
(* Cells *)

Null == <<>>

Some(v) == <<v>>

IsNull(x) == x = <<>>

Val(x) == x[1]

----------------------------------------------------------------------------
(* Program constants *)

FUNDING_STAGE_LABELS ==
    [code \in 0..4 |->
        CASE code = 0 -> "Pre-Seed / Angel"
          [] code = 1 -> "Seed"
          [] code = 2 -> "Series A"
          [] code = 3 -> "Series B"
          [] code = 4 -> "Post-IPO"]

\* INDUSTRY_MAP, in its declared (iteration) order.
INDUSTRY_MAP ==
    << <<"ind_ai", "AI">>,
       <<"ind_software", "Software">>,
       <<"ind_it", "IT">>,
       <<"ind_saas", "SaaS">>,
       <<"ind_healthcare", "Healthcare">>,
       <<"ind_fintech", "FinTech">>,
       <<"ind_financial", "Financial Services">>,
       <<"ind_ml", "Machine Learning">>,
       <<"ind_manufacturing", "Manufacturing">>,
       <<"ind_biotech", "Biotech">>,
       <<"ind_genai", "Generative AI">>,
       <<"ind_devtools", "Developer Tools">> >>

spine_cols ==
    {"company_id", "name", "industries", "hq_location", "description_combined",
     "city", "state", "country", "total_funding_usd", "last_funding_date",
     "last_funding_type", "num_employees", "website", "linkedin",
     "top_investors", "num_investors", "founded_date"}

\* The columns of the upstream files that the code reads unconditionally.
HiringCols == {"company_id", "name", "hiring_score", "hiring_tier", "hiring_rank"}

ScoresCols ==
    {"company_id", "momentum_score", "momentum_tier", "momentum_rank",
     "funding_stage"}

IndCols == {INDUSTRY_MAP[i][1] : i \in 1..Len(INDUSTRY_MAP)}

\* S3_KEYS, each key as its characters.
S3_KEYS ==
    [scores |->
        <<"m", "o", "d", "e", "l", "i", "n", "g", "/", "c", "o", "m", "p", "a",
          "n", "y", "_", "s", "c", "o", "r", "e", "s", ".", "c", "s", "v">>,
     hiring |->
        <<"m", "o", "d", "e", "l", "i", "n", "g", "/", "h", "i", "r", "i", "n",
          "g", "_", "f", "r", "i", "e", "n", "d", "l", "i", "n", "e", "s", "s",
          "_", "s", "c", "o", "r", "e", "s", ".", "c", "s", "v">>,
     features |->
        <<"m", "o", "d", "e", "l", "i", "n", "g", "/", "f", "e", "a", "t", "u",
          "r", "e", "s", ".", "p", "a", "r", "q", "u", "e", "t">>,
     metadata |->
        <<"m", "o", "d", "e", "l", "i", "n", "g", "/", "f", "e", "a", "t", "u",
          "r", "e", "_", "m", "e", "t", "a", "d", "a", "t", "a", ".", "c", "s",
          "v">>,
     spine |->
        <<"c", "l", "e", "a", "n", "e", "d", "/", "s", "p", "i", "n", "e", "_",
          "c", "l", "e", "a", "n", "e", "d", ".", "p", "a", "r", "q", "u", "e",
          "t">>]

TTL == 3600

----------------------------------------------------------------------------
(* Data-frame operations, as pandas performs them *)

Table(cols, rows) == [cols |-> cols, rows |-> rows]

\* df[[c1, c2, ...]]
Project(df, cols) ==
    Table(cols, [i \in 1..Len(df.rows) |-> [c \in cols |-> df.rows[i][c]]])

\* A column name with a merge suffix appended.
WithSuffix(c, sfx) ==
    IF sfx = "" THEN c
    ELSE CASE c = "name" /\ sfx = "_spine" -> "name_spine"
           [] c = "funding_stage" /\ sfx = "_dup" -> "funding_stage_dup"

\* The name a column of one side takes in the merged frame: a column that is
\* on both sides and is not the key takes the side's suffix.
MergedName(c, other, sfx) ==
    IF c # "company_id" /\ c \in other.cols THEN WithSuffix(c, sfx) ELSE c

MergedCols(df, other, sfx) == {MergedName(c, other, sfx) : c \in df.cols}

\* The column of df that is called n in the merged frame.
SourceName(df, other, sfx, n) ==
    IF n \in df.cols /\ MergedName(n, other, sfx) = n THEN n
    ELSE CHOOSE c \in df.cols \cap other.cols : MergedName(c, other, sfx) = n

\* The cells one side contributes to a merged row (r), or nulls (no match).
SidePart(df, other, sfx, r, matched) ==
    [n \in MergedCols(df, other, sfx) \ {"company_id"} |->
        IF matched THEN r[SourceName(df, other, sfx, n)] ELSE Null]

\* The right rows whose key equals the left row's key, in the right's order
\* (pandas matches a null key with a null key).
MatchingRows(right, key) ==
    SelectSeq(right.rows, LAMBDA r : r["company_id"] = key)

\* how="inner" in place of how="left": an unmatched left row is dropped.
MergeOneInner(left, right, lsfx, rsfx, l) ==
    LET m == MatchingRows(right, l["company_id"])
        lpart == [c \in {"company_id"} |-> l["company_id"]]
                     @@ SidePart(left, right, lsfx, l, TRUE)
    IN  [k \in 1..Len(m) |-> lpart @@ SidePart(right, left, rsfx, m[k], TRUE)]

MergeOneLeft(left, right, lsfx, rsfx, l) ==
    LET m == MatchingRows(right, l["company_id"])
        lpart == [c \in {"company_id"} |-> l["company_id"]]
                     @@ SidePart(left, right, lsfx, l, TRUE)
    IN  IF m = <<>>
        THEN << lpart @@ SidePart(right, left, rsfx, l, FALSE) >>
        ELSE [k \in 1..Len(m) |-> lpart @@ SidePart(right, left, rsfx, m[k], TRUE)]

RECURSIVE MergeRows(_, _, _, _, _)
MergeRows(left, right, lsfx, rsfx, i) ==
    IF i > Len(left.rows) THEN <<>>
    ELSE MergeOneLeft(left, right, lsfx, rsfx, left.rows[i])
             \o MergeRows(left, right, lsfx, rsfx, i + 1)

\* left.merge(right, on="company_id", how="left", suffixes=(lsfx, rsfx))
merge(left, right, lsfx, rsfx) ==
    Table(MergedCols(left, right, lsfx) \cup MergedCols(right, left, rsfx),
          MergeRows(left, right, lsfx, rsfx, 1))

\* df[c] = f(row) for every row
SetCol(df, c, f(_)) ==
    Table(df.cols \cup {c},
          [i \in 1..Len(df.rows) |->
              [k \in df.cols \cup {c} |->
                  IF k = c THEN f(df.rows[i]) ELSE df.rows[i][k]]])

\* df.drop(columns=[c])
DropCol(df, c) == Project(df, df.cols \ {c})

----------------------------------------------------------------------------
(* Data preparation *)

\* for col, label in INDUSTRY_MAP.items(): if row.get(col, 0) == 1: return label
RECURSIVE FirstIndustry(_, _)
FirstIndustry(row, i) ==
    IF i > Len(INDUSTRY_MAP) THEN "Other"
    ELSE IF INDUSTRY_MAP[i][1] \in DOMAIN row /\ row[INDUSTRY_MAP[i][1]] = Some(1)
         THEN INDUSTRY_MAP[i][2]
         ELSE FirstIndustry(row, i + 1)

derive_primary_industry(row) == FirstIndustry(row, 1)

\* The tenths q (value = q * 100000 + 50000, between 1,050,000 and 9,950,000)
\* at which the double value / 1_000_000 lies above the decimal tie, so that
\* the format ".1f" rounds up; at the other tenths it lies below.
MillionTiesUp ==
    {10, 13, 15, 17, 18, 23, 24, 27, 28, 29, 33, 34, 37, 38, 39, 41, 44, 46,
     47, 49, 51, 54, 56, 57, 59, 61, 64, 66, 67, 69, 71, 74, 76, 77, 79, 80,
     81, 85, 86, 87, 90, 91, 95, 96, 97}

\* f"{value / 1_000_000:.1f}" in tenths, for a whole value below 10,000,000.
MillionTenths(value) ==
    LET q == value \div 100000
        r == value % 100000
    IN  IF r > 50000 \/ (r = 50000 /\ q \in MillionTiesUp) THEN q + 1 ELSE q

\* int(value / 1_000): the thousands cut off, not rounded.
ThousandWhole_truncated(value) == value \div 1000

\* f"{value / 1_000:.0f}": value / 1000 is exact at a tie, which rounds to even.
ThousandWhole(value) ==
    LET k == value \div 1000
        r == value % 1000
    IN  IF r > 500 \/ (r = 500 /\ k % 2 = 1) THEN k + 1 ELSE k

\* The display string as its pieces: <<"N/A">>, <<"$", n, ".", d, "M">>,
\* <<"$", n, "K">> or <<"$", n>> (a whole value below 1000 has no comma).
format_usd(value) ==
    IF IsNull(value) THEN <<"N/A">>
    ELSE IF Val(value) >= 1000000
         THEN <<"$", MillionTenths(Val(value)) \div 10, ".",
                MillionTenths(Val(value)) % 10, "M">>
         ELSE IF Val(value) >= 1000
              THEN <<"$", ThousandWhole(Val(value)), "K">>
              ELSE <<"$", Val(value)>>

\* df["funding_stage"].map(FUNDING_STAGE_LABELS): the label of a mapped code,
\* null for every other cell.
MapStage(cell) ==
    IF ~IsNull(cell) /\ Val(cell) \in DOMAIN FUNDING_STAGE_LABELS
    THEN Some(FUNDING_STAGE_LABELS[Val(cell)])
    ELSE Null

\* No fill: a null cell stays null.
fillna_skipped(cell, v) == cell

\* .fillna(v)
fillna(cell, v) == IF IsNull(cell) THEN v ELSE cell

\* The label without the .fillna("Unknown").
funding_stage_label_nofill(row) == MapStage(row["funding_stage"])

funding_stage_label(row) == fillna(MapStage(row["funding_stage"]), Some("Unknown"))

\* ind_df: features[["company_id"] + ind_* columns] with primary_industry
\* applied to each row, then cut to the two columns that are merged.
ind_df(features) ==
    LET ind == Project(features,
                       {c \in features.cols : c = "company_id" \/ c \in IndCols})
    IN  Project(SetCol(ind, "primary_industry",
                       LAMBDA row : Some(derive_primary_industry(row))),
                {"company_id", "primary_industry"})

\* sort_values("hiring_rank"): ascending, null ranks last in their given
\* order.  The sort is not stable: rows of equal rank come out in either
\* order (tiesReversed).
RECURSIVE InsertByRank(_, _, _)
InsertByRank(sorted, row, tiesReversed) ==
    IF sorted = <<>> THEN <<row>>
    ELSE LET h == Head(sorted)
             before == IF tiesReversed
                       THEN Val(row["hiring_rank"]) <= Val(h["hiring_rank"])
                       ELSE Val(row["hiring_rank"]) < Val(h["hiring_rank"])
         IN  IF before THEN <<row>> \o sorted
             ELSE <<h>> \o InsertByRank(Tail(sorted), row, tiesReversed)

RECURSIVE SortRanked(_, _)
SortRanked(rows, tiesReversed) ==
    IF rows = <<>> THEN <<>>
    ELSE InsertByRank(SortRanked(SubSeq(rows, 1, Len(rows) - 1), tiesReversed),
                      rows[Len(rows)], tiesReversed)

\* The frame left in the order of Hiring.
sort_values_skipped(df, tiesReversed) == df

sort_values(df, tiesReversed) ==
    Table(df.cols,
          SortRanked(SelectSeq(df.rows, LAMBDA r : ~IsNull(r["hiring_rank"])),
                     tiesReversed)
              \o SelectSeq(df.rows, LAMBDA r : IsNull(r["hiring_rank"])))

\* What a call returned: a table, or the exception it raised.
Returned(df) == [status |-> "ok", cols |-> df.cols, rows |-> df.rows]

Raised(exc) == [status |-> exc, cols |-> {}, rows |-> <<>>]

NotRun == [status |-> "none", cols |-> {}, rows |-> <<>>]

prepare_master_table(bundle, tiesReversed) ==
    LET hiring == bundle.hiring
        scores == Project(bundle.scores,
                          {"company_id", "momentum_score", "momentum_tier",
                           "momentum_rank"})
        spine == Project(bundle.spine, spine_cols \cap bundle.spine.cols)
        features == bundle.features
        df1 == merge(hiring, scores, "_x", "_y")
        df2 == merge(df1, spine, "", "_spine")
        df3 == IF "name_spine" \in df2.cols
               THEN DropCol(SetCol(df2, "name",
                                   LAMBDA row : fillna(row["name"], row["name_spine"])),
                            "name_spine")
               ELSE df2
        scores_full == Project(bundle.scores, {"company_id", "funding_stage"})
        df4 == merge(df3, scores_full, "", "_dup")
        df5 == SetCol(df4, "funding_stage_label", funding_stage_label)
        df6 == merge(df5, ind_df(features), "_x", "_y")
        df7 == IF "has_job_postings" \in features.cols
               THEN merge(df6, Project(features, {"company_id", "has_job_postings"}),
                          "_x", "_y")
               ELSE df6
    IN  IF "total_funding_usd" \notin df7.cols
        THEN Raised("KeyError")
        ELSE Returned(sort_values(
                 SetCol(df7, "total_funding_display",
                        LAMBDA row : Some(format_usd(row["total_funding_usd"]))),
                 tiesReversed))

----------------------------------------------------------------------------
(* Filters *)

\* str.lower() on the letters that occur in names and searches.
Lower(ch) ==
    CASE ch = "A" -> "a"
      [] ch = "B" -> "b"
      [] ch = "C" -> "c"
      [] ch = "E" -> "e"
      [] ch = "M" -> "m"
      [] OTHER -> ch

\* re.compile(pat): "(" opens a group that nothing closes, and "*" needs an
\* item to repeat that is not itself a repeat.
CompileFails(pat) ==
    \E k \in 1..Len(pat) :
        \/ pat[k] = "("
        \/ pat[k] = "*" /\ (k = 1 \/ pat[k - 1] = "*")

\* One pattern item against one character, under re.IGNORECASE.
ItemMatches(p, ch) == p = "." \/ Lower(p) = Lower(ch)

\* The pattern from item k on matches a stretch of s that starts at j.
RECURSIVE MatchHere(_, _, _, _)
MatchHere(pat, k, s, j) ==
    IF k > Len(pat) THEN TRUE
    ELSE IF k < Len(pat) /\ pat[k + 1] = "*"
         THEN \/ MatchHere(pat, k + 2, s, j)
              \/ /\ j <= Len(s)
                 /\ ItemMatches(pat[k], s[j])
                 /\ MatchHere(pat, k, s, j + 1)
         ELSE /\ j <= Len(s)
              /\ ItemMatches(pat[k], s[j])
              /\ MatchHere(pat, k + 1, s, j + 1)

\* pat.search(s) is not None
re_search(pat, s) == \E j \in 1..(Len(s) + 1) : MatchHere(pat, 1, s, j)

\* Series.str.contains(pat, case=False, na=False): the pattern is a regular
\* expression (regex=True is the default).
str_contains(cell, pat) == ~IsNull(cell) /\ re_search(pat, Val(cell))

\* df[mask]
FilterRows(df, keep(_)) == Table(df.cols, SelectSeq(df.rows, keep))

apply_filters(df, min_score, tiers, industries, stages, search) ==
    LET f1 == IF min_score > 0
              THEN FilterRows(df, LAMBDA r : /\ ~IsNull(r["hiring_score"])
                                             /\ Val(r["hiring_score"]) >= min_score)
              ELSE df
        f2 == IF tiers # {}
              THEN FilterRows(f1, LAMBDA r : /\ ~IsNull(r["momentum_tier"])
                                             /\ Val(r["momentum_tier"]) \in tiers)
              ELSE f1
        f3 == IF industries # {}
              THEN FilterRows(f2, LAMBDA r : /\ ~IsNull(r["primary_industry"])
                                             /\ Val(r["primary_industry"]) \in industries)
              ELSE f2
        f4 == IF stages # {}
              THEN FilterRows(f3, LAMBDA r : /\ ~IsNull(r["funding_stage_label"])
                                             /\ Val(r["funding_stage_label"]) \in stages)
              ELSE f3
    IN  IF search # <<>>
        THEN IF CompileFails(search)
             THEN Raised("re.error")
             ELSE Returned(FilterRows(f4, LAMBDA r : str_contains(r["name"], search)))
        ELSE Returned(f4)

----------------------------------------------------------------------------
(* The loader's state *)

Datasets == {"scores", "hiring", "features", "metadata", "spine"}

\* The order in which load_all_data reads the datasets.
LoadOrder == <<"scores", "hiring", "features", "metadata", "spine">>

EmptyCache == [ds \in Datasets |-> Null]

NoneLoaded == [ds \in Datasets |-> Null]

NoAttempts == [ds \in Datasets |-> 0]

NoTarget == [ds |-> "none", key |-> <<>>]

\* No load under way and nothing cached.
LoaderIdle ==
    /\ readerCache = EmptyCache
    /\ bundleCache = Null
    /\ idx = 0
    /\ loaded = NoneLoaded
    /\ attempts = NoAttempts
    /\ requests = 0
    /\ target = NoTarget

----------------------------------------------------------------------------
(* main: the table assembly step *)

\* main's data before load_all_data has returned.
NoData ==
    [scores |-> Table({}, <<>>), hiring |-> Table({}, <<>>),
     features |-> Table({}, <<>>), metadata |-> Table({}, <<>>),
     spine |-> Table({}, <<>>)]

NoArgs == [min_score |-> 0, tiers |-> {}, industries |-> {}, stages |-> {},
           search |-> <<>>]

\* master_df = prepare_master_table(data); an exception ends the script run.
PrepareMasterTable ==
    /\ pc = "prepare"
    /\ \E tiesReversed \in BOOLEAN :
           master' = prepare_master_table(data, tiesReversed)
    /\ pc' = IF master'.status = "ok" THEN "filter" ELSE "crashed"
    /\ UNCHANGED <<data, fargs, filtered, shown, storeVars, loadVars>>

\* filtered_df = apply_filters(master_df, ...); an exception ends the script run.
ApplyFilters ==
    /\ pc = "filter"
    /\ filtered' = apply_filters(master, fargs.min_score, fargs.tiers,
                                 fargs.industries, fargs.stages, fargs.search)
    /\ pc' = IF filtered'.status = "ok" THEN "render" ELSE "crashed"
    /\ UNCHANGED <<data, master, fargs, shown, storeVars, loadVars>>

----------------------------------------------------------------------------
(* Bundles for the assembly: small upstream tables *)

MaxRows == 2

MaxId == 2

MaxRank == 3

Ids == 1..MaxId

SeqsUpTo(S, n) == UNION {[1..k -> S] : k \in 0..n}

OptIds == {Null} \cup {Some(i) : i \in Ids}

OptRanks == {Null} \cup {Some(r) : r \in 1..MaxRank}

OptStages == {Null} \cup {Some(code) : code \in (0 - 1)..5}

OptNames == {Null, Some(<<"A", "c", "m", "e">>)}

OptFunding == {Null, Some(0), Some(999), Some(1500), Some(2300000)}

HiringRow(id, rank, nm) ==
    [company_id |-> id, name |-> nm, hiring_score |-> Some(50),
     hiring_tier |-> Some("High"), hiring_rank |-> rank]

ScoresRow(id, stage) ==
    [company_id |-> id, momentum_score |-> Some(1),
     momentum_tier |-> Some("High"), momentum_rank |-> Some(1),
     funding_stage |-> stage]

SpineRow(id, nm, funding, cols) ==
    [c \in cols |->
        CASE c = "company_id" -> id
          [] c = "name" -> nm
          [] c = "total_funding_usd" -> funding
          [] OTHER -> Some("text")]

FeatureCols == {"company_id", "has_job_postings"} \cup IndCols

\* flags: the cell of each industry-indicator column.
FeaturesRow(id, flags, cols) ==
    [c \in cols |->
        CASE c = "company_id" -> id
          [] c = "has_job_postings" -> Some(1)
          [] OTHER -> flags[c]]

OneFlag(col) == [c \in IndCols |-> IF c = col THEN Some(1) ELSE Some(0)]

FlagPatterns ==
    {OneFlag(col) : col \in IndCols}
        \cup {[c \in IndCols |-> Some(0)],
              [c \in IndCols |-> Null],
              [c \in IndCols |-> IF c \in {"ind_saas", "ind_devtools"}
                                 THEN Some(1) ELSE Some(0)],
              [c \in IndCols |-> IF c = "ind_ai" THEN Some(2)
                                 ELSE IF c = "ind_biotech" THEN Some(1)
                                 ELSE Some(0)]}

FeatureColsChoices ==
    {FeatureCols, FeatureCols \ {"has_job_postings"},
     FeatureCols \ {"ind_ai", "ind_saas"}, {"company_id", "has_job_postings"}}

SpineColsChoices ==
    {spine_cols, {"company_id"}}
        \cup {spine_cols \ {c} : c \in spine_cols \ {"company_id"}}
        \cup {{"company_id", c} : c \in spine_cols \ {"company_id"}}

\* Tables of the ids in ids, one row each, in ascending order.
HiringOf(ids, nm) ==
    Table(HiringCols, [i \in 1..Len(ids) |-> HiringRow(Some(ids[i]), Some(i), nm[i])])

ScoresOf(ids) ==
    Table(ScoresCols, [i \in 1..Len(ids) |-> ScoresRow(Some(ids[i]), Some(2))])

SpineOf(ids, cols) ==
    Table(cols, [i \in 1..Len(ids) |->
                    SpineRow(Some(ids[i]), Some(<<"I", "n", "c">>), Some(1500), cols)])

FeaturesOf(ids, cols) ==
    Table(cols, [i \in 1..Len(ids) |->
                    FeaturesRow(Some(ids[i]), OneFlag("ind_ai"), cols)])

AllIds == [i \in Ids |-> i]

AllNamed == [i \in Ids |-> Some(<<"A", "c", "m", "e">>)]

\* The sequences of ids without repetition, in ascending order.
AscendingIds == {s \in SeqsUpTo(Ids, MaxId) : \A i \in 1..(Len(s) - 1) : s[i] < s[i + 1]}

IdSeqs == SeqsUpTo(Ids, MaxRows)

Bundle(h, sc, sp, f) ==
    [scores |-> sc, hiring |-> h, features |-> f,
     metadata |-> Table({"feature", "group"}, <<>>), spine |-> sp]

Named(ids) == [i \in 1..Len(ids) |-> Some(<<"A", "c", "m", "e">>)]

\* Hiring rows of any rank, null included, in any order and with repeats.
BundlesHiring(d) ==
    \E rows \in SeqsUpTo(Ids \X OptRanks, MaxRows) :
        d = Bundle(Table(HiringCols,
                         [i \in 1..Len(rows) |->
                             HiringRow(Some(rows[i][1]), rows[i][2],
                                       Some(<<"A", "c", "m", "e">>))]),
                   ScoresOf(AllIds), SpineOf(AllIds, spine_cols),
                   FeaturesOf(AllIds, FeatureCols))

\* Hiring rows of any id, null included.
BundlesNullId(d) ==
    \E h \in SeqsUpTo(OptIds, MaxRows) :
        d = Bundle(Table(HiringCols,
                         [i \in 1..Len(h) |->
                             HiringRow(h[i], Some(i), Some(<<"A", "c", "m", "e">>))]),
                   ScoresOf(AllIds), SpineOf(AllIds, spine_cols),
                   FeaturesOf(AllIds, FeatureCols))

\* Every combination of companies present in and absent from each table.
BundlesJoin(d) ==
    \E h \in AscendingIds, sc \in AscendingIds, sp \in AscendingIds,
       f \in AscendingIds :
        d = Bundle(HiringOf(h, Named(h)), ScoresOf(sc), SpineOf(sp, spine_cols),
                   FeaturesOf(f, FeatureCols))

\* One joined table with repeated ids.
BundlesDup(d) ==
    \E h \in AscendingIds, r \in IdSeqs, which \in {"scores", "spine", "features"} :
        d = Bundle(HiringOf(h, Named(h)),
                   ScoresOf(IF which = "scores" THEN r ELSE AllIds),
                   SpineOf(IF which = "spine" THEN r ELSE AllIds, spine_cols),
                   FeaturesOf(IF which = "features" THEN r ELSE AllIds, FeatureCols))

\* Scores rows of any stage code.
BundlesScores(d) ==
    \E st \in SeqsUpTo(OptStages, MaxId) :
        d = Bundle(HiringOf(AllIds, AllNamed),
                   Table(ScoresCols, [i \in 1..Len(st) |-> ScoresRow(Some(i), st[i])]),
                   SpineOf(AllIds, spine_cols), FeaturesOf(AllIds, FeatureCols))

\* Features rows of any flag pattern, with and without the optional columns.
BundlesFeatures(d) ==
    \E fl \in FlagPatterns, n \in 0..MaxId, cols \in FeatureColsChoices :
        d = Bundle(HiringOf(AllIds, AllNamed), ScoresOf(AllIds),
                   SpineOf(AllIds, spine_cols),
                   Table(cols,
                         [i \in 1..n |->
                             FeaturesRow(Some(i),
                                         IF i = 1 THEN fl ELSE OneFlag("ind_it"),
                                         cols)]))

\* Spine rows of any name and funding, under Hiring rows with and without a name.
BundlesSpine(d) ==
    \E nm \in [Ids -> OptNames], sp \in SeqsUpTo(OptNames, MaxId),
       funding \in OptFunding :
        d = Bundle(HiringOf(AllIds, nm), ScoresOf(AllIds),
                   Table(spine_cols,
                         [i \in 1..Len(sp) |->
                             SpineRow(Some(i), sp[i], funding, spine_cols)]),
                   FeaturesOf(AllIds, FeatureCols))

\* A Spine table that lacks optional columns.
BundlesSpineCols(d) ==
    \E nm \in [Ids -> OptNames], cols \in SpineColsChoices :
        d = Bundle(HiringOf(AllIds, nm), ScoresOf(AllIds), SpineOf(AllIds, cols),
                   FeaturesOf(AllIds, FeatureCols))

\* main, from the point where load_all_data has returned a bundle.
InitAssemble ==
    /\ pc = "prepare"
    /\ \/ BundlesHiring(data)
       \/ BundlesNullId(data)
       \/ BundlesJoin(data)
       \/ BundlesDup(data)
       \/ BundlesScores(data)
       \/ BundlesFeatures(data)
       \/ BundlesSpine(data)
       \/ BundlesSpineCols(data)
    /\ master = NotRun
    /\ fargs = NoArgs
    /\ filtered = NotRun
    /\ shown = <<>>
    /\ now = 0 /\ upstream = 0 /\ bucket = <<>>
    /\ LoaderIdle

NextAssemble == PrepareMasterTable

SpecAssemble == InitAssemble /\ [][NextAssemble]_vars

----------------------------------------------------------------------------
(* Remote reader *)

EndsWith(k, suffix) ==
    /\ Len(k) >= Len(suffix)
    /\ SubSeq(k, Len(k) - Len(suffix) + 1, Len(k)) = suffix

\* sub in k
Contains(k, sub) ==
    \E j \in 1..(Len(k) - Len(sub) + 1) : SubSeq(k, j, j + Len(sub) - 1) = sub

\* read_csv_from_s3 reads the scores, hiring and metadata keys,
\* read_parquet_from_s3 the features and spine keys.
Extension(ds) ==
    IF ds \in {"features", "spine"}
    THEN <<".", "p", "a", "r", "q", "u", "e", "t">>
    ELSE <<".", "c", "s", "v">>

\* The keys of resp.get("Contents", []): the objects whose key starts with key.
Contents(key) == [i \in 1..Len(bucket) |-> key \o bucket[i]]

\* The listed keys with the extension and without "/_", in listing order.
DataFiles(contents, ext) ==
    SelectSeq(contents, LAMBDA k : EndsWith(k, ext) /\ ~Contains(k, <<"/", "_">>))

\* The same without the "/_" test.
target_key_with_sentinels(contents, key, ext) ==
    LET files == SelectSeq(contents, LAMBDA k : EndsWith(k, ext))
    IN  IF files # <<>> THEN files[1] ELSE key

target_key(contents, key, ext) ==
    IF DataFiles(contents, ext) # <<>> THEN DataFiles(contents, ext)[1] ELSE key

\* An entry never expires.
MayHit_forever(entry, t) == ~IsNull(entry)

\* @st.cache_data(ttl=3600): an entry is served until ttl seconds after it was
\* stored.  At exactly ttl seconds the cache library's versions differ, so
\* the entry may be served or may have expired.
MayHit(entry, t) == IF IsNull(entry) THEN FALSE ELSE t <= Val(entry).at + TTL

MayMiss(entry, t) == IF IsNull(entry) THEN TRUE ELSE t >= Val(entry).at + TTL

Entry(snap, t) == Some([snap |-> snap, at |-> t])

\* A call served from the cache: the body does not run.
ReaderHit(ds) ==
    /\ MayHit(readerCache[ds], now)
    /\ loaded' = [loaded EXCEPT ![ds] = Some(Val(readerCache[ds]).snap)]
    /\ idx' = idx + 1
    /\ UNCHANGED <<mainVars, storeVars, readerCache, bundleCache, attempts,
                   requests, target>>

\* list_objects_v2 raises: the exception leaves the reader and load_all_data.
ReaderListFails(ds) ==
    /\ MayMiss(readerCache[ds], now)
    /\ attempts' = [attempts EXCEPT ![ds] = @ + 1]
    /\ requests' = requests + 1
    /\ readerCache' = [readerCache EXCEPT ![ds] = Null]
    /\ pc' = "except"
    /\ UNCHANGED <<data, master, fargs, filtered, shown, storeVars, bundleCache,
                   idx, loaded, target>>

\* get_object raises (it always does when no object has the target key), or
\* the bytes do not parse.
ReaderGetFails(ds) ==
    /\ MayMiss(readerCache[ds], now)
    /\ attempts' = [attempts EXCEPT ![ds] = @ + 1]
    /\ requests' = requests + 2
    /\ target' = [ds |-> ds,
                  key |-> target_key(Contents(S3_KEYS[ds]), S3_KEYS[ds], Extension(ds))]
    /\ readerCache' = [readerCache EXCEPT ![ds] = Null]
    /\ pc' = "except"
    /\ UNCHANGED <<data, master, fargs, filtered, shown, storeVars, bundleCache,
                   idx, loaded>>

\* The body runs to its end: the table read is cached and returned.
ReaderFetches(ds) ==
    /\ MayMiss(readerCache[ds], now)
    /\ \E i \in 1..Len(bucket) :
           Contents(S3_KEYS[ds])[i]
               = target_key(Contents(S3_KEYS[ds]), S3_KEYS[ds], Extension(ds))
    /\ attempts' = [attempts EXCEPT ![ds] = @ + 1]
    /\ requests' = requests + 2
    /\ target' = [ds |-> ds,
                  key |-> target_key(Contents(S3_KEYS[ds]), S3_KEYS[ds], Extension(ds))]
    /\ readerCache' = [readerCache EXCEPT ![ds] = Entry(upstream, now)]
    /\ loaded' = [loaded EXCEPT ![ds] = Some(upstream)]
    /\ idx' = idx + 1
    /\ UNCHANGED <<mainVars, storeVars, bundleCache>>

\* load_all_data's next call of read_csv_from_s3 / read_parquet_from_s3.
ReadFromS3 ==
    /\ pc = "load"
    /\ idx <= Len(LoadOrder)
    /\ \/ ReaderHit(LoadOrder[idx])
       \/ ReaderListFails(LoadOrder[idx])
       \/ ReaderGetFails(LoadOrder[idx])
       \/ ReaderFetches(LoadOrder[idx])

----------------------------------------------------------------------------
(* Dataset loader and main *)

MaxTicks == 2

TickStep == 2400

MaxVersion == 1

MaxListing == 2

\* The tables of version v of the upstream files: v + 1 companies.
SnapshotIds(v) == [i \in 1..(IF v + 1 < MaxId THEN v + 1 ELSE MaxId) |-> i]

SnapshotTable(ds, v) ==
    CASE ds = "hiring" -> HiringOf(SnapshotIds(v), Named(SnapshotIds(v)))
      [] ds = "scores" -> ScoresOf(SnapshotIds(v))
      [] ds = "spine" ->
             SpineOf(SnapshotIds(v), {"company_id", "name", "total_funding_usd"})
      [] ds = "features" ->
             FeaturesOf(SnapshotIds(v), {"company_id", "has_job_postings", "ind_ai"})
      [] ds = "metadata" -> Table({"feature", "group"}, <<>>)

\* The dictionary load_all_data returns.
BundleOf(snaps) ==
    [scores |-> SnapshotTable("scores", Val(snaps["scores"])),
     hiring |-> SnapshotTable("hiring", Val(snaps["hiring"])),
     features |-> SnapshotTable("features", Val(snaps["features"])),
     metadata |-> SnapshotTable("metadata", Val(snaps["metadata"])),
     spine |-> SnapshotTable("spine", Val(snaps["spine"]))]

\* data = load_all_data(): served from its cache, or its body starts.
LoadAllData ==
    /\ pc = "start"
    /\ \/ /\ MayHit(bundleCache, now)
          /\ data' = BundleOf(Val(bundleCache).snap)
          /\ pc' = "prepare"
          /\ UNCHANGED <<bundleCache, idx, loaded>>
       \/ /\ MayMiss(bundleCache, now)
          /\ bundleCache' = Null
          /\ idx' = 1
          /\ loaded' = NoneLoaded
          /\ pc' = "load"
          /\ UNCHANGED data
    /\ UNCHANGED <<master, fargs, filtered, shown, storeVars, readerCache,
                   attempts, requests, target>>

\* load_all_data returns the five tables; the bundle is cached.
LoadAllDataReturn ==
    /\ pc = "load"
    /\ idx = Len(LoadOrder) + 1
    /\ bundleCache' = Entry(loaded, now)
    /\ data' = BundleOf(loaded)
    /\ pc' = "prepare"
    /\ UNCHANGED <<master, fargs, filtered, shown, storeVars, readerCache, idx,
                   loaded, attempts, requests, target>>

\* except Exception: st.error, st.info, and no st.stop(): the script goes on.
MainExcept_continues ==
    /\ pc = "except"
    /\ shown' = shown \o <<"error: could not load data from S3", "info: check credentials">>
    /\ pc' = "prepare"
    /\ UNCHANGED <<data, master, fargs, filtered, storeVars, loadVars>>

\* except Exception: st.error, st.info, st.stop()
MainExcept ==
    /\ pc = "except"
    /\ shown' = shown \o <<"error: could not load data from S3", "info: check credentials">>
    /\ pc' = "stopped"
    /\ UNCHANGED <<data, master, fargs, filtered, storeVars, loadVars>>

\* The tabs: KPI cards, the table or the no-match notice, the overview.
Render ==
    /\ pc = "render"
    /\ shown' = shown \o <<"kpi cards",
                           IF Len(filtered.rows) = 0
                           THEN "info: no companies match" ELSE "company table",
                           "overview">>
    /\ pc' = "done"
    /\ UNCHANGED <<data, master, fargs, filtered, storeVars, loadVars>>

all_tiers == {"Very High", "High", "Moderate", "Low", "Very Low"}

\* The sidebar as it starts: every tier selected, nothing else set.
DefaultArgs == [NoArgs EXCEPT !.tiers = all_tiers]

SidebarChoices == {DefaultArgs, [DefaultArgs EXCEPT !.search = <<"(">>]}

\* The user touches a widget (or reloads): the script runs again from the top.
Rerun ==
    /\ pc \in {"done", "stopped", "crashed"}
    /\ pc' = "start"
    /\ fargs' \in SidebarChoices
    /\ data' = NoData
    /\ master' = NotRun
    /\ filtered' = NotRun
    /\ shown' = <<>>
    /\ idx' = 0
    /\ loaded' = NoneLoaded
    /\ attempts' = NoAttempts
    /\ requests' = 0
    /\ target' = NoTarget
    /\ UNCHANGED <<storeVars, readerCache, bundleCache>>

\* Time passes between script runs (a run is short beside a tick).
Tick ==
    /\ pc = "start"
    /\ now + TickStep <= MaxTicks * TickStep
    /\ now' = now + TickStep
    /\ UNCHANGED <<mainVars, upstream, bucket, loadVars>>

\* The weekly pipeline rewrites the files.
UpstreamRefresh ==
    /\ pc = "start"
    /\ upstream < MaxVersion
    /\ upstream' = upstream + 1
    /\ UNCHANGED <<mainVars, now, bucket, loadVars>>

\* A key that holds one flat file, and a key that holds a Spark directory.
FlatLayout == << <<>> >>

SparkLayout ==
    << <<"/", "_", "S", "U", "C", "C", "E", "S", "S">>,
       <<"/", "p", "a", "r", "t", "-", "0", "0", "0", "0", "0", ".", "c", "s", "v">>,
       <<"/", "p", "a", "r", "t", "-", "0", "0", "0", "0", "0", ".", "p", "a", "r", "q", "u", "e", "t">> >>

Init ==
    /\ pc = "start"
    /\ data = NoData
    /\ master = NotRun
    /\ fargs = DefaultArgs
    /\ filtered = NotRun
    /\ shown = <<>>
    /\ now = 0
    /\ upstream = 0
    /\ bucket \in {FlatLayout, SparkLayout}
    /\ LoaderIdle

Next ==
    \/ LoadAllData
    \/ ReadFromS3
    \/ LoadAllDataReturn
    \/ MainExcept
    \/ PrepareMasterTable
    \/ ApplyFilters
    \/ Render
    \/ Rerun
    \/ Tick
    \/ UpstreamRefresh

Spec == Init /\ [][Next]_vars

\* What a listing may hold under a key, as the rest of the object's key.
ObjectSuffixes ==
    {<<>>,
     <<"/", "_", "S", "U", "C", "C", "E", "S", "S">>,
     <<"/", "p", "a", "r", "t", "-", "0", "0", "0", "0", "0", ".", "c", "s", "v">>,
     <<"/", "p", "a", "r", "t", "-", "0", "0", "0", "0", "1", ".", "c", "s", "v">>,
     <<"/", "p", "a", "r", "t", "-", "0", "0", "0", "0", "0", ".", "p", "a", "r", "q", "u", "e", "t">>,
     <<"/", "p", "a", "r", "t", "-", "0", "0", "0", "0", "1", ".", "p", "a", "r", "q", "u", "e", "t">>,
     <<"/", "_", "m", "e", "t", "a", ".", "c", "s", "v">>,
     <<"/", "_", "m", "e", "t", "a", ".", "p", "a", "r", "q", "u", "e", "t">>,
     <<"/", "p", "a", "r", "t", "-", "0", "0", "0", "0", "0", ".", "c", "s", "v", ".", "c", "r", "c">>}

Layouts ==
    {l \in SeqsUpTo(ObjectSuffixes, MaxListing) :
        \A i, j \in 1..Len(l) : l[i] = l[j] => i = j}

\* load_all_data's body, over every listing.
InitReader ==
    /\ pc = "load"
    /\ data = NoData
    /\ master = NotRun
    /\ fargs = DefaultArgs
    /\ filtered = NotRun
    /\ shown = <<>>
    /\ now = 0
    /\ upstream = 0
    /\ bucket \in Layouts
    /\ readerCache = EmptyCache
    /\ bundleCache = Null
    /\ idx = 1
    /\ loaded = NoneLoaded
    /\ attempts = NoAttempts
    /\ requests = 0
    /\ target = NoTarget

NextReader == ReadFromS3

SpecReader == InitReader /\ [][NextReader]_vars

----------------------------------------------------------------------------
(* Properties of the master table *)

IdsOf(t) == {t.rows[i]["company_id"] : i \in 1..Len(t.rows)}

UniqueIds(t) ==
    \A i, j \in 1..Len(t.rows) :
        t.rows[i]["company_id"] = t.rows[j]["company_id"] => i = j

MasterRows == {master.rows[i] : i \in 1..Len(master.rows)}

\* The columns the master table takes from Spine (name is shared with Hiring).
SpineAttributes == (spine_cols \cap data.spine.cols) \ {"company_id", "name"}

\* C1: when company_id is unique within Hiring, Scores, Spine and Features,
\* the master table has exactly one row per company_id of Hiring and no other
\* row, and a company absent from Scores, Spine or Features has null in the
\* columns joined from that table.
C1_OneRowPerHiringCompany ==
    (/\ master.status = "ok"
     /\ UniqueIds(data.hiring) /\ UniqueIds(data.scores)
     /\ UniqueIds(data.spine) /\ UniqueIds(data.features))
    => /\ \A id \in IdsOf(data.hiring) :
              Cardinality({i \in 1..Len(master.rows) :
                              master.rows[i]["company_id"] = id}) = 1
       /\ Len(master.rows) = Len(data.hiring.rows)
       /\ \A r \in MasterRows :
              /\ r["company_id"] \in IdsOf(data.hiring)
              /\ r["company_id"] \notin IdsOf(data.scores)
                     => /\ IsNull(r["momentum_score"])
                        /\ IsNull(r["momentum_tier"])
                        /\ IsNull(r["momentum_rank"])
              /\ r["company_id"] \notin IdsOf(data.spine)
                     => \A c \in SpineAttributes : IsNull(r[c])
              /\ (/\ r["company_id"] \notin IdsOf(data.features)
                  /\ "has_job_postings" \in data.features.cols)
                     => IsNull(r["has_job_postings"])

\* Two Hiring companies, one of them in none of the joined tables and the
\* other in all of them, each table with unique ids.
C1_Witness ==
    /\ master.status = "ok"
    /\ UniqueIds(data.hiring) /\ UniqueIds(data.scores)
    /\ UniqueIds(data.spine) /\ UniqueIds(data.features)
    /\ Len(master.rows) = 2
    /\ \E r \in MasterRows :
           /\ r["company_id"] \notin IdsOf(data.scores)
           /\ r["company_id"] \notin IdsOf(data.spine)
           /\ r["company_id"] \notin IdsOf(data.features)
           /\ IsNull(r["momentum_score"]) /\ IsNull(r["total_funding_usd"])
           /\ IsNull(r["has_job_postings"])
    /\ \E r \in MasterRows :
           /\ r["company_id"] \in IdsOf(data.scores)
           /\ r["company_id"] \in IdsOf(data.spine)
           /\ r["company_id"] \in IdsOf(data.features)
           /\ ~IsNull(r["momentum_score"]) /\ ~IsNull(r["total_funding_usd"])

IndustryLabels == {INDUSTRY_MAP[i][2] : i \in 1..Len(INDUSTRY_MAP)}

\* C3: every row of the master table has a primary_industry that is one of
\* the twelve industry labels or "Other", never null.
C3_PrimaryIndustryNeverNull ==
    master.status = "ok"
    => \A r \in MasterRows :
           /\ ~IsNull(r["primary_industry"])
           /\ Val(r["primary_industry"]) \in IndustryLabels \cup {"Other"}

\* C5: with a Spine table that has company_id and lacks any of the optional
\* columns, prepare_master_table completes without raising.
C5_MissingSpineColumnsSkipped ==
    (pc # "prepare" /\ "company_id" \in data.spine.cols)
    => /\ master.status = "ok"
       /\ \A c \in spine_cols \ data.spine.cols : c \notin master.cols \ HiringCols

Rank(i) == master.rows[i]["hiring_rank"]

\* C9 as stated: company_id and hiring_rank are non-null in every row, the
\* rows ascend by hiring_rank, and consecutive rows leave no gap.
C9_DenseAscendingRanks ==
    master.status = "ok"
    => /\ \A r \in MasterRows : ~IsNull(r["company_id"]) /\ ~IsNull(r["hiring_rank"])
       /\ \A i \in 1..(Len(master.rows) - 1) :
              /\ Val(Rank(i)) <= Val(Rank(i + 1))
              /\ Val(Rank(i + 1)) - Val(Rank(i)) <= 1

HiringRanks == {data.hiring.rows[i]["hiring_rank"] : i \in 1..Len(data.hiring.rows)}

\* Hiring has no null id or rank, and its ranks are a run of whole numbers.
HiringIsDense ==
    /\ Null \notin IdsOf(data.hiring)
    /\ Null \notin HiringRanks
    /\ \A a, b \in HiringRanks :
           \A n \in Val(a)..Val(b) : Some(n) \in HiringRanks

\* C9, amended: the rows ascend by hiring_rank with the null ranks last; and
\* when Hiring has no null id or rank and no gap in its ranks, so has the
\* master table.
C9_SortedByRank ==
    master.status = "ok"
    => /\ \A i \in 1..(Len(master.rows) - 1) :
              \/ IsNull(Rank(i + 1))
              \/ ~IsNull(Rank(i)) /\ Val(Rank(i)) <= Val(Rank(i + 1))
       /\ HiringIsDense
              => /\ \A r \in MasterRows :
                        ~IsNull(r["company_id"]) /\ ~IsNull(r["hiring_rank"])
                 /\ \A i \in 1..(Len(master.rows) - 1) :
                        Val(Rank(i + 1)) - Val(Rank(i)) <= 1

\* Hiring lists its companies in descending rank, with a gap and with a null
\* rank, and the master table has them sorted.
C9_Witness ==
    /\ master.status = "ok"
    /\ Len(data.hiring.rows) >= 2
    /\ data.hiring.rows[1]["hiring_rank"] = Some(3)
    /\ data.hiring.rows[2]["hiring_rank"] = Some(1)
    /\ Rank(1) = Some(1)
    /\ Rank(2) = Some(3)

StageOf(r) == r["funding_stage"]

\* C10: funding_stage_label is the declared label of a stage code 0..4 and
\* "Unknown" in every other case (a code out of range, a missing code, a
\* company with no Scores row); it is never null.
C10_StageLabel ==
    master.status = "ok"
    => \A r \in MasterRows :
           /\ ~IsNull(r["funding_stage_label"])
           /\ StageOf(r) = Some(0) => r["funding_stage_label"] = Some("Pre-Seed / Angel")
           /\ StageOf(r) = Some(1) => r["funding_stage_label"] = Some("Seed")
           /\ StageOf(r) = Some(2) => r["funding_stage_label"] = Some("Series A")
           /\ StageOf(r) = Some(3) => r["funding_stage_label"] = Some("Series B")
           /\ StageOf(r) = Some(4) => r["funding_stage_label"] = Some("Post-IPO")
           /\ StageOf(r) \notin {Some(code) : code \in 0..4}
                  => r["funding_stage_label"] = Some("Unknown")
           /\ r["company_id"] \notin IdsOf(data.scores)
                  => r["funding_stage_label"] = Some("Unknown")
           /\ r["company_id"] \in IdsOf(data.scores)
                  => \E i \in 1..Len(data.scores.rows) :
                         /\ data.scores.rows[i]["company_id"] = r["company_id"]
                         /\ data.scores.rows[i]["funding_stage"] = StageOf(r)

\* One company with the out-of-range code 5 and one with the code 4.
C10_Witness ==
    /\ master.status = "ok"
    /\ \E r \in MasterRows :
           StageOf(r) = Some(5) /\ r["funding_stage_label"] = Some("Unknown")
    /\ \E r \in MasterRows :
           StageOf(r) = Some(4) /\ r["funding_stage_label"] = Some("Post-IPO")

----------------------------------------------------------------------------
(* Master tables and sidebar values for the filters *)

MaxSearch == 2

FilterCols ==
    {"company_id", "name", "hiring_score", "hiring_rank", "momentum_tier",
     "primary_industry", "funding_stage_label"}

FilterRow(i, nm, score, tier, industry, stage) ==
    [company_id |-> Some(i), name |-> nm, hiring_score |-> score,
     hiring_rank |-> Some(i), momentum_tier |-> tier,
     primary_industry |-> industry, funding_stage_label |-> Some(stage)]

FilterNames ==
    {Null, Some(<<"A", "c", "m", "e">>), Some(<<"a", ".", "c">>),
     Some(<<"b", "c">>), Some(<<"C", "*">>), Some(<<"a", " ", "c">>)}

SearchChars == {"a", "C", ".", "(", "*", " "}

Searches == SeqsUpTo(SearchChars, MaxSearch)

\* score, tier, industry, stage
RowKinds ==
    {<<Some(80), Some("High"), Some("AI"), "Seed">>,
     <<Some(50), Some("High"), Some("Other"), "Unknown">>,
     <<Some(40), Some("High"), Some("AI"), "Seed">>,
     <<Some(80), Some("Low"), Some("AI"), "Seed">>,
     <<Some(80), Null, Null, "Unknown">>,
     <<Null, Some("Low"), Some("AI"), "Seed">>}

\* Rows of any name, searched for any text.
InitSearch ==
    \E nm \in SeqsUpTo(FilterNames, MaxRows), search \in Searches :
        /\ master = Returned(Table(FilterCols,
                        [i \in 1..Len(nm) |->
                            FilterRow(i, nm[i], Some(50), Some("High"), Some("AI"), "Seed")]))
        /\ fargs = [NoArgs EXCEPT !.search = search]

\* Rows of any score, tier, industry and stage, under any criteria.
InitCriteria ==
    \E kinds \in SeqsUpTo(RowKinds, MaxRows), min_score \in {0, 50},
       tiers \in {{}, {"High"}, {"High", "Low"}}, industries \in {{}, {"AI"}},
       stages \in {{}, {"Seed"}},
       search \in {<<>>, <<"b">>, <<"(">>, <<" ">>} :
        /\ master = Returned(Table(FilterCols,
                        [i \in 1..Len(kinds) |->
                            FilterRow(i,
                                      IF i = 1 THEN Some(<<"a", "b">>) ELSE Some(<<"c">>),
                                      kinds[i][1], kinds[i][2], kinds[i][3],
                                      kinds[i][4])]))
        /\ fargs = [min_score |-> min_score, tiers |-> tiers,
                    industries |-> industries, stages |-> stages,
                    search |-> search]

\* main, from the point where the sidebar has been read.
InitFilter ==
    /\ pc = "filter"
    /\ data = NoData
    /\ InitSearch \/ InitCriteria
    /\ filtered = NotRun
    /\ shown = <<>>
    /\ now = 0 /\ upstream = 0 /\ bucket = <<>>
    /\ LoaderIdle

NextFilter == ApplyFilters

SpecFilter == InitFilter /\ [][NextFilter]_vars

----------------------------------------------------------------------------
(* Properties of the filters *)

\* needle occurs in hay as a contiguous run of characters, case ignored.
IsSubstring(needle, hay) ==
    \E j \in 0..(Len(hay) - Len(needle)) :
        \A k \in 1..Len(needle) : Lower(needle[k]) = Lower(hay[j + k])

NameHasSearch(r) ==
    ~IsNull(r["name"]) /\ IsSubstring(fargs.search, Val(r["name"]))

\* The criteria other than the search, each one active only when it is set.
MeetsCriteria(r) ==
    /\ fargs.min_score > 0
           => ~IsNull(r["hiring_score"]) /\ Val(r["hiring_score"]) >= fargs.min_score
    /\ fargs.tiers # {}
           => ~IsNull(r["momentum_tier"]) /\ Val(r["momentum_tier"]) \in fargs.tiers
    /\ fargs.industries # {}
           => /\ ~IsNull(r["primary_industry"])
              /\ Val(r["primary_industry"]) \in fargs.industries
    /\ fargs.stages # {}
           => /\ ~IsNull(r["funding_stage_label"])
              /\ Val(r["funding_stage_label"]) \in fargs.stages

\* A blank search is empty or all spaces.
Blank(s) == \A k \in 1..Len(s) : s[k] = " "

MeetsAll(r) == MeetsCriteria(r) /\ (~Blank(fargs.search) => NameHasSearch(r))

NoCriteria ==
    /\ fargs.min_score = 0 /\ fargs.tiers = {} /\ fargs.industries = {}
    /\ fargs.stages = {} /\ Blank(fargs.search)

\* C2: for every master table and every combination of arguments
\* apply_filters returns exactly the rows that meet all active criteria, in
\* the order of the input; with no criterion set it returns the input.
C2_FilterConjunction ==
    pc \in {"render", "crashed"}
    => /\ filtered.status = "ok"
       /\ filtered.cols = master.cols
       /\ filtered.rows = SelectSeq(master.rows, MeetsAll)
       /\ NoCriteria => filtered.rows = master.rows

\* C4: for every non-empty search, whatever its characters, the call does
\* not fail and keeps a row exactly when its name is non-null and contains
\* the search as a substring, case ignored.
C4_SearchIsSubstring ==
    (pc \in {"render", "crashed"} /\ fargs.search # <<>>)
    => /\ filtered.status = "ok"
       /\ \A r \in MasterRows :
              (\E i \in 1..Len(filtered.rows) : filtered.rows[i] = r)
                  <=> (MeetsCriteria(r) /\ NameHasSearch(r))

----------------------------------------------------------------------------
(* Properties of the reader, the loader and main *)

\* A step that is one call of a reader by load_all_data.
ReaderCall == pc = "load" /\ (idx' = idx + 1 \/ pc' = "except")

CalledDs == LoadOrder[idx]

\* C6: a call within 3600 seconds of the key's last successful fetch returns
\* the cached snapshot and sends no list or get request; a call later than
\* that fetches anew and the result replaces the cached snapshot; a failed
\* fetch leaves no cached entry.
C6_CacheTimeToLive ==
    [][ReaderCall =>
          LET e == readerCache[CalledDs]
          IN  /\ (~IsNull(e) /\ now < Val(e).at + 3600)
                     => /\ idx' = idx + 1
                        /\ loaded'[CalledDs] = Some(Val(e).snap)
                        /\ requests' = requests
                        /\ readerCache' = readerCache
              /\ (~IsNull(e) /\ now > Val(e).at + 3600)
                     => /\ requests' > requests
                        /\ attempts'[CalledDs] = attempts[CalledDs] + 1
                        /\ idx' = idx + 1
                               => /\ readerCache'[CalledDs] = Entry(upstream, now)
                                  /\ loaded'[CalledDs] = Some(upstream)
              /\ pc' = "except" => IsNull(readerCache'[CalledDs])]_vars

\* In one script run the scores entry, older than an hour, was fetched anew
\* and holds the new version, and the hiring call was served the older
\* version from an entry younger than an hour, with no request of its own.
C6_Witness ==
    /\ pc = "load"
    /\ idx = 3
    /\ upstream = 1
    /\ now > 3600
    /\ readerCache["scores"] = Entry(1, now)
    /\ attempts["scores"] = 1
    /\ ~IsNull(readerCache["hiring"])
    /\ Val(readerCache["hiring"]).at < now
    /\ now < Val(readerCache["hiring"]).at + 3600
    /\ loaded["hiring"] = Some(0)
    /\ attempts["hiring"] = 0
    /\ requests = 2

\* A fetch of this script run has failed.
FetchFailed == \E ds \in Datasets : attempts[ds] > 0 /\ IsNull(loaded[ds])

\* C7: when the fetch of a dataset fails, main gets no bundle, the fetch is
\* not tried again in that script run, and the run ends having shown the error
\* and the credentials hint, with no master table, no filtering and no
\* table or chart.
C7_FetchFailureAbortsRender ==
    FetchFailed
    => /\ pc \in {"except", "stopped"}
       /\ data = NoData
       /\ master = NotRun
       /\ filtered = NotRun
       /\ \A ds \in Datasets : attempts[ds] <= 1
       /\ pc = "except" => shown = <<>>
       /\ pc = "stopped"
              => shown = <<"error: could not load data from S3",
                           "info: check credentials">>

\* The run has stopped on the failure of the third dataset, after two
\* datasets were read.
C7_Witness ==
    /\ pc = "stopped"
    /\ FetchFailed
    /\ idx = 3
    /\ ~IsNull(loaded["scores"]) /\ ~IsNull(loaded["hiring"])
    /\ attempts["features"] = 1
    /\ Len(shown) = 2

\* What the claim calls a file the reader may pick.
Qualifies(k, ext) ==
    /\ Len(k) >= Len(ext)
    /\ \A i \in 1..Len(ext) : k[Len(k) - Len(ext) + i] = ext[i]
    /\ ~\E j \in 1..(Len(k) - 1) : k[j] = "/" /\ k[j + 1] = "_"

\* C8: the reader reads the first listed object that ends with the expected
\* extension and has no "/_" in its key, and the key itself when no listed
\* object qualifies.
C8_TargetResolution ==
    target.ds # "none"
    => LET key == S3_KEYS[target.ds]
           ext == IF target.ds \in {"scores", "hiring", "metadata"}
                  THEN <<".", "c", "s", "v">>
                  ELSE <<".", "p", "a", "r", "q", "u", "e", "t">>
           listed == [i \in 1..Len(bucket) |-> key \o bucket[i]]
       IN  \/ /\ \A i \in 1..Len(listed) : ~Qualifies(listed[i], ext)
              /\ target.key = key
           \/ \E i \in 1..Len(listed) :
                  /\ Qualifies(listed[i], ext)
                  /\ \A j \in 1..(i - 1) : ~Qualifies(listed[j], ext)
                  /\ target.key = listed[i]

\* Under the scores key the listing is {_SUCCESS, part-00000.csv} and the
\* reader has read part-00000.csv.
C8_Witness ==
    /\ bucket = << <<"/", "_", "S", "U", "C", "C", "E", "S", "S">>,
                   <<"/", "p", "a", "r", "t", "-", "0", "0", "0", "0", "0", ".", "c", "s", "v">> >>
    /\ target.ds = "scores"
    /\ target.key = S3_KEYS["scores"] \o <<"/", "p", "a", "r", "t", "-", "0", "0", "0", "0", "0", ".", "c", "s", "v">>
    /\ ~IsNull(loaded["scores"])

----------------------------------------------------------------------------
(* Properties of the company name *)

\* The name cells of the Spine rows of one company; empty when Spine has no
\* row of the company or no name column.
SpineNamesOf(id) ==
    IF "name" \in data.spine.cols
    THEN {data.spine.rows[i]["name"] :
             i \in {j \in 1..Len(data.spine.rows) :
                       data.spine.rows[j]["company_id"] = id}}
    ELSE {}

\* The name the claim gives a company whose Hiring row is h.
NameFor(h, nm) ==
    IF ~IsNull(h["name"]) THEN nm = h["name"]
    ELSE IF SpineNamesOf(h["company_id"]) = {} THEN IsNull(nm)
         ELSE nm \in SpineNamesOf(h["company_id"])

\* C11: every row of the master table carries the Hiring name of its company
\* when that is non-null, otherwise the Spine name of the same company_id,
\* null when there is none; the table has no name_spine column.
C11_NamePrefersHiring ==
    master.status = "ok"
    => /\ "name" \in master.cols
       /\ "name_spine" \notin master.cols
       /\ \A r \in MasterRows :
              /\ DOMAIN r = master.cols
              /\ \E i \in 1..Len(data.hiring.rows) :
                     /\ data.hiring.rows[i]["company_id"] = r["company_id"]
                     /\ data.hiring.rows[i]["hiring_rank"] = r["hiring_rank"]
                     /\ NameFor(data.hiring.rows[i], r["name"])

\* Spine names every company "Inc"; the company Hiring names "Acme" keeps
\* that name and the company Hiring leaves unnamed is called "Inc".
C11_Witness ==
    /\ master.status = "ok"
    /\ "name" \in data.spine.cols
    /\ Len(data.hiring.rows) = 2
    /\ data.hiring.rows[1]["name"] = Some(<<"A", "c", "m", "e">>)
    /\ IsNull(data.hiring.rows[2]["name"])
    /\ \A i \in 1..2 : SpineNamesOf(Some(i)) = {Some(<<"I", "n", "c">>)}
    /\ Len(master.rows) = 2
    /\ master.rows[1]["name"] = Some(<<"A", "c", "m", "e">>)
    /\ master.rows[2]["name"] = Some(<<"I", "n", "c">>)

----------------------------------------------------------------------------
(* Funding amounts for the display string *)

MaxHalfThousands == 12

MaxHalfTenths == 50

\* Whole-dollar amounts at and beside the halves of a thousand up to
\* MaxHalfThousands * 500, at and beside the halves of a tenth of a million
\* from 950,000 up to MaxHalfTenths * 50,000, and beside the million boundary.
FundingValues ==
    {v \in {k * 500 + d : k \in 0..MaxHalfThousands, d \in {0 - 1, 0, 1}} : v >= 0}
        \cup {q * 50000 + d : q \in 19..MaxHalfTenths, d \in {0 - 1, 0, 1}}
        \cup {998500, 999499, 999500, 999501}

FundingCells == {Null} \cup {Some(v) : v \in FundingValues}

\* One company whose Spine row carries any of the amounts.
BundlesFunding(d) ==
    \E funding \in FundingCells :
        d = Bundle(HiringOf(<<1>>, <<Some(<<"A", "c", "m", "e">>)>>), ScoresOf(<<1>>),
                   Table(spine_cols,
                         <<SpineRow(Some(1), Some(<<"I", "n", "c">>), funding,
                                    spine_cols)>>),
                   FeaturesOf(<<1>>, FeatureCols))

\* main, from the point where load_all_data has returned a bundle.
InitFormat ==
    /\ pc = "prepare"
    /\ BundlesFunding(data)
    /\ master = NotRun
    /\ fargs = NoArgs
    /\ filtered = NotRun
    /\ shown = <<>>
    /\ now = 0 /\ upstream = 0 /\ bucket = <<>>
    /\ LoaderIdle

NextFormat == PrepareMasterTable

SpecFormat == InitFormat /\ [][NextFormat]_vars

----------------------------------------------------------------------------
(* Properties of the funding display *)

Distance(a, b) == IF a >= b THEN a - b ELSE b - a

\* The display string the claim gives the amount v (a cell).
DisplayFor(v, s) ==
    IF IsNull(v) THEN s = <<"N/A">>
    ELSE IF Val(v) >= 1000000
         THEN \E t \in 0..(Val(v) \div 100000 + 1) :
                  /\ s = <<"$", t \div 10, ".", t % 10, "M">>
                  /\ Distance(t * 100000, Val(v)) <= 50000
         ELSE IF Val(v) >= 1000
              THEN \E n \in 0..1000 :
                       /\ s = <<"$", n, "K">>
                       /\ Distance(n * 1000, Val(v)) <= 500
              ELSE s = <<"$", Val(v)>>

\* C12: total_funding_display is "N/A" for a missing amount, the millions
\* rounded to one decimal with "M" from 1,000,000 up, the thousands rounded
\* to a whole number with "K" from 1,000 up to the million boundary, and the
\* integer itself below 1,000; 0 gives "$0", 1500 gives "$2K" and 2,300,000
\* gives "$2.3M".
C12_FormatUsd ==
    master.status = "ok"
    => \A r \in MasterRows :
           LET v == r["total_funding_usd"]
               s == Val(r["total_funding_display"])
           IN  /\ ~IsNull(r["total_funding_display"])
               /\ DisplayFor(v, s)
               /\ v = Some(0) => s = <<"$", 0>>
               /\ v = Some(1500) => s = <<"$", 2, "K">>
               /\ v = Some(2300000) => s = <<"$", 2, ".", 3, "M">>
               /\ v = Some(999999) => s = <<"$", 1000, "K">>

\* The amount 1500, halfway between two thousands, is shown as "$2K".
C12_Witness ==
    /\ master.status = "ok"
    /\ Len(master.rows) = 1
    /\ master.rows[1]["total_funding_usd"] = Some(1500)
    /\ master.rows[1]["total_funding_display"] = Some(<<"$", 2, "K">>)

====
